---- MODULE Spec2Model ----
(***************************************************************************)
(* Spatial interpolation core of pixel_planet (spatial_utils.py) and the    *)
(* forecast query that calls it (vertex_ai_agent.py).                      *)
(*                                                                         *)
(* Numbers.  Distances and latitudes are integers counted in units of      *)
(* 1/UnitsPerKm km (half a metre), so every threshold of the code          *)
(* (0.001, 0.01, 1, 50, 200, 300, 500 km) is an exact integer.  Forecast   *)
(* values and weights are exact rationals <<numerator, denominator>> in    *)
(* lowest terms; floating-point rounding is not modelled.                  *)
(*                                                                         *)
(* Records.  A Python dict is a function from its keys (strings) to its    *)
(* values; `k in d` is k \in DOMAIN d.  A call's outcome is a record       *)
(* [exc, val]: exc = "none" and the returned value, or the exception       *)
(* raised.                                                                 *)
(***************************************************************************)
EXTENDS Integers, Sequences, FiniteSets, TLC

VARIABLES
    pc,                          \* position of the call being executed
    target_lat, target_lon,      \* the target coordinate
    n_points,                    \* argument n_points
    forecast_data,               \* find_nearest_points: argument
    distance_threshold,          \* find_nearest_points: argument
    found,                       \* find_nearest_points: its outcome
    nearby_forecasts,            \* inverse_distance_weighting: argument
    idw_out,                     \* inverse_distance_weighting: its outcome
    all_forecasts,               \* interpolate_forecast: argument
    max_interpolation_distance,  \* interpolate_forecast: argument
    grouped,                     \* interpolate_forecast: the groups, in insertion order
    group_index,                 \* interpolate_forecast: the group the loop is at
    interpolated_results,        \* interpolate_forecast: local
    min_distance, max_distance,  \* interpolate_forecast: locals
    interpolation_used,          \* interpolate_forecast: local
    idw_calls,                   \* interpolate_forecast: its calls of inverse_distance_weighting
    result,                      \* interpolate_forecast: its outcome
    table,                       \* query_activity_forecast: the rows of the forecast table
    time_window,                 \* query_activity_forecast: << start_time, end_time >>
    results,                     \* query_activity_forecast: outcome of the storage query
    response,                    \* query_activity_forecast: its outcome
    point_a, point_b,            \* haversine_distance: the two coordinates
    hav_out,                     \* haversine_distance: its outcome
    last_forecast_data,          \* VertexAIAgent: self._last_forecast_data
    calls,                       \* VertexAIAgent: calls of ask / assess_activity begun
    entered,                     \* VertexAIAgent: the public method being executed
    max_iterations, iteration,   \* ask: argument and loop counter
    model_response,              \* ask: the latest reply of the model
    answer,                      \* VertexAIAgent: outcome of the latest call
    timeout_seconds,             \* wait_for_job_completion: argument
    elapsed,                     \* wait_for_job_completion: time.time() - start_time
    operations,                  \* wait_for_job_completion: the operations last listed
    wait_out,                    \* wait_for_job_completion: its outcome
    caller,                      \* wait_for_job_completion: who called it
    pipeline                     \* run_pipeline: what the pipeline last reported

findVars == << forecast_data, distance_threshold, found >>
idwVars  == << nearby_forecasts, idw_out >>
loopVars == << interpolated_results, min_distance, max_distance,
               interpolation_used, idw_calls >>

queryVars == << table, time_window, results, response >>

havVars   == << point_a, point_b, hav_out >>
agentVars == << last_forecast_data, calls, entered, max_iterations, iteration,
                model_response, answer >>
jobVars   == << timeout_seconds, elapsed, operations, wait_out, caller, pipeline >>

\* the variables of the interpolation and query functions, and the others
coreVars == << target_lat, target_lon, n_points, findVars, idwVars,
               all_forecasts, max_interpolation_distance, grouped, group_index,
               loopVars, result, queryVars >>
extVars  == << havVars, agentVars, jobVars >>

vars == << pc, coreVars, extVars >>

----------------------------------------------------------------------------
(* Units and numbers *)

UnitsPerKm == 2000

Km(n) == n * UnitsPerKm

Abs(x) == IF x < 0 THEN -x ELSE x

RECURSIVE GCD(_, _)
GCD(a, b) == IF b = 0 THEN a ELSE GCD(b, a % b)

\* a rational in lowest terms with a positive denominator
Rat(n, d) ==
    LET s == IF d < 0 THEN -1 ELSE 1
        g == GCD(Abs(n), Abs(d))
    IN  << (s * n) \div g, (s * d) \div g >>

RatInt(n) == << n, 1 >>
\* sums and products divide out common factors before they multiply
RatAdd(a, b) ==
    LET g == GCD(a[2], b[2])
    IN  Rat(a[1] * (b[2] \div g) + b[1] * (a[2] \div g), (a[2] \div g) * b[2])
RatMul(a, b) ==
    LET g1 == GCD(Abs(a[1]), b[2])
        g2 == GCD(Abs(b[1]), a[2])
    IN  Rat((a[1] \div g1) * (b[1] \div g2), (a[2] \div g2) * (b[2] \div g1))
RatDiv(a, b) == RatMul(a, IF b[1] < 0 THEN << -b[2], -b[1] >> ELSE << b[2], b[1] >>)
RatLeq(a, b) ==
    LET g == GCD(a[2], b[2])
    IN  a[1] * (b[2] \div g) <= b[1] * (a[2] \div g)

RECURSIVE RatPow(_, _)
RatPow(a, k) == IF k = 0 THEN RatInt(1) ELSE RatMul(a, RatPow(a, k - 1))

RECURSIVE RatSum(_)
RatSum(s) == IF s = << >> THEN RatInt(0) ELSE RatAdd(Head(s), RatSum(Tail(s)))

----------------------------------------------------------------------------
(* Python dicts, lists and call outcomes *)

Has(d, k) == k \in DOMAIN d

\* d.get(k, default)
Get(d, k, default) == IF Has(d, k) THEN d[k] ELSE default

\* the dict d with d[k] = v
WithField(d, k, v) == [x \in DOMAIN d \cup {k} |-> IF x = k THEN v ELSE d[x]]

\* A name bound to a dict: the dict's content and whether the name still
\* refers to the dict the caller passed in.
DictCopy_SameObject(record) == [dict |-> record, shared |-> TRUE]

\* record.copy(): a dict of its own
DictCopy(record) == [dict |-> record, shared |-> FALSE]

\* obj[k] = v
SetItem(obj, k, v) == [dict |-> WithField(obj.dict, k, v), shared |-> obj.shared]

\* the caller's dict `record` after the stores made through obj
SeenByCaller(record, obj) == IF obj.shared THEN obj.dict ELSE record

\* seq[:n] for any integer n
PySlice(seq, n) ==
    LET hi == IF n >= 0
              THEN (IF n < Len(seq) THEN n ELSE Len(seq))
              ELSE (IF Len(seq) + n > 0 THEN Len(seq) + n ELSE 0)
    IN  SubSeq(seq, 1, hi)

Ret(v) == [exc |-> "none", val |-> v]
Raise(e) == [exc |-> e, val |-> << >>]
NotCalled == [exc |-> "pending", val |-> << >>]

----------------------------------------------------------------------------
(* haversine_distance *)

\* The coordinates of the model lie on one meridian (lon1 = lon2, dlon = 0):
\* there a = sin(dlat/2)^2, c = |dlat| and the result c * r is the arc between
\* the two latitudes.  Latitudes are given as arc length from the equator.
haversine_distance(lat1, lon1, lat2, lon2) == Abs(lat2 - lat1)

----------------------------------------------------------------------------
(* find_nearest_points *)

ExactThreshold == 20     \* 0.01 km, default distance_threshold

InsertByDistance_Unstable(sorted, x) ==
    LET k == Cardinality({i \in 1..Len(sorted) :
                             sorted[i]["distance_km"] < x["distance_km"]})
    IN  SubSeq(sorted, 1, k) \o << x >> \o SubSeq(sorted, k + 1, Len(sorted))

\* list.sort(key=distance_km): a stable sort, built by inserting each element
\* behind the elements that do not follow it
InsertByDistance(sorted, x) ==
    LET k == Cardinality({i \in 1..Len(sorted) :
                             sorted[i]["distance_km"] <= x["distance_km"]})
    IN  SubSeq(sorted, 1, k) \o << x >> \o SubSeq(sorted, k + 1, Len(sorted))

RECURSIVE SortPrefix(_, _)
SortPrefix(s, k) ==
    IF k = 0 THEN << >> ELSE InsertByDistance(SortPrefix(s, k - 1), s[k])

SortByDistance(s) == SortPrefix(s, Len(s))

IsExact_Leq(sorted, threshold) == sorted[1]["distance_km"] <= threshold

\* is_exact: the closest point is strictly inside the threshold
IsExact(sorted, threshold) == sorted[1]["distance_km"] < threshold

\* record_copy = record.copy(); record_copy['distance_km'] = distance
RecordCopy(tlat, tlon, record) ==
    SetItem(DictCopy(record), "distance_km",
            haversine_distance(tlat, tlon, record["lat"], record["lon"]))

\* the list forecast_data as the caller sees it after the call
ForecastDataAfter(tlat, tlon, data) ==
    [i \in 1..Len(data) |-> SeenByCaller(data[i], RecordCopy(tlat, tlon, data[i]))]

\* returns << nearest_points, is_exact >>
find_nearest_points(tlat, tlon, data, n, threshold) ==
    IF data = << >>
    THEN << << >>, FALSE >>
    ELSE LET points_with_distance ==
                 [i \in 1..Len(data) |-> RecordCopy(tlat, tlon, data[i]).dict]
             sorted == SortByDistance(points_with_distance)
         IN  << PySlice(sorted, n), IsExact(sorted, threshold) >>

----------------------------------------------------------------------------
(* inverse_distance_weighting *)

IdwPower == 2            \* default power
DegenerateDistance == 2  \* 0.001 km

NumericFields ==
    << "forecast_value", "prediction_interval_lower", "prediction_interval_upper",
       "standard_error", "confidence_level" >>

CopiedFields ==
    { "forecast_timestamp", "parameter", "forecast_date",
      "forecast_hour", "day_of_week", "day_name" }

SeqToSet(s) == { s[i] : i \in 1..Len(s) }

IsSingle_Never(nearby) == FALSE
IsSingle_UpToTwo(nearby) == Len(nearby) <= 2

\* len(nearby_forecasts) == 1
IsSingle(nearby) == Len(nearby) = 1

IsDegenerate_Never(distance) == distance < 0

\* distance < 0.001
IsDegenerate(distance) == distance < DegenerateDistance

\* record.get('distance_km'), computed from the coordinates when it is missing
IdwDistance(tlat, tlon, record) ==
    IF Has(record, "distance_km")
    THEN record["distance_km"]
    ELSE haversine_distance(tlat, tlon, record["lat"], record["lon"])

Weight_Linear(distance, power) == Rat(UnitsPerKm, distance)

Weight_Proportional(distance, power) == RatPow(Rat(distance, UnitsPerKm), power)

\* 1.0 / (distance ** power), the distance taken in km
Weight(distance, power) == RatPow(Rat(UnitsPerKm, distance), power)

WeightedMean_ByCount(nearby, weights, field) ==
    RatDiv(RatSum([i \in 1..Len(nearby) |->
                      RatMul(weights[i], Get(nearby[i], field, RatInt(0)))]),
           RatInt(Len(nearby)))

\* sum(weights[i] * nearby[i].get(field, 0)) / total_weight
WeightedMean(nearby, weights, field) ==
    RatDiv(RatSum([i \in 1..Len(nearby) |->
                      RatMul(weights[i], Get(nearby[i], field, RatInt(0)))]),
           RatSum(weights))

\* the dict built after the weights: target coordinates, method, the numeric
\* fields of the first record interpolated, its descriptive fields copied
Interpolated(tlat, tlon, nearby, weights) ==
    LET nearest == nearby[1]
        numeric == { f \in SeqToSet(NumericFields) : Has(nearest, f) }
        copied  == { f \in CopiedFields : Has(nearest, f) }
        base    == { "lat", "lon", "interpolation_method", "n_points_used", "distances_km" }
    IN  [ f \in base \cup numeric \cup copied |->
            IF f \in copied THEN nearest[f]
            ELSE IF f \in numeric THEN WeightedMean(nearby, weights, f)
            ELSE IF f = "lat" THEN tlat
            ELSE IF f = "lon" THEN tlon
            ELSE IF f = "interpolation_method" THEN "idw"
            ELSE IF f = "n_points_used" THEN Len(nearby)
            ELSE [i \in 1..Len(nearby) |-> nearby[i]["distance_km"]] ]

\* The outcome carries, besides exc and val, the list `weighted` of the
\* distances for which a weight 1/distance^power was computed.
IdwOutcome(outcome, weighted) ==
    [exc |-> outcome.exc, val |-> outcome.val, weighted |-> weighted]

\* result = record.copy(); result['interpolation_method'] = method
TaggedCopy(record, method) ==
    SetItem(DictCopy(record), "interpolation_method", method)

inverse_distance_weighting(tlat, tlon, nearby, power) ==
    IF nearby = << >> THEN IdwOutcome(Ret(<< >>), << >>)
    ELSE IF IsSingle(nearby)
    THEN IdwOutcome(Ret(TaggedCopy(nearby[1], "nearest_point").dict), << >>)
    ELSE
    LET n == Len(nearby)
        distance == [i \in 1..n |-> IdwDistance(tlat, tlon, nearby[i])]
        \* the loop over the records ends at the first degenerate distance
        \* (return) or at a division by zero (raise)
        ends   == { i \in 1..n : IsDegenerate(distance[i]) \/ distance[i] = 0 }
        stop   == IF ends = {} THEN n + 1
                  ELSE CHOOSE i \in ends : \A j \in ends : i <= j
        before == [i \in 1..(stop - 1) |-> distance[i]]
    IN  IF stop <= n /\ IsDegenerate(distance[stop])
        THEN IdwOutcome(Ret(TaggedCopy(nearby[stop], "exact_match").dict), before)
        ELSE IF stop <= n
        THEN IdwOutcome(Raise("ZeroDivisionError"), before)
        ELSE IF \E i \in 1..n : ~Has(nearby[i], "distance_km")
        THEN IdwOutcome(Raise("KeyError"), before)
        ELSE IdwOutcome(
                 Ret(Interpolated(tlat, tlon, nearby,
                                  [i \in 1..n |-> Weight(distance[i], power)])),
                 before)

\* the list nearby_forecasts as the caller sees it after the call: the record
\* that was returned tagged is the only one stored to
NearbyAfter(tlat, tlon, nearby, power) ==
    LET n == Len(nearby)
        ends == { i \in 1..n : \/ IsDegenerate(IdwDistance(tlat, tlon, nearby[i]))
                               \/ IdwDistance(tlat, tlon, nearby[i]) = 0 }
        stop == IF ends = {} THEN n + 1
                ELSE CHOOSE i \in ends : \A j \in ends : i <= j
    IN  IF nearby = << >> THEN nearby
        ELSE IF IsSingle(nearby)
        THEN << SeenByCaller(nearby[1], TaggedCopy(nearby[1], "nearest_point")) >>
        ELSE IF stop <= n /\ IsDegenerate(IdwDistance(tlat, tlon, nearby[stop]))
        THEN [i \in 1..n |->
                 IF i = stop
                 THEN SeenByCaller(nearby[i], TaggedCopy(nearby[i], "exact_match"))
                 ELSE nearby[i]]
        ELSE nearby

----------------------------------------------------------------------------
(* interpolate_forecast *)

Inf == 1073741823               \* float('inf'): above every distance
DefaultNPoints == 3
DefaultMaxDistance == 1000000   \* 500.0 km

MaxOf(a, b) == IF a > b THEN a ELSE b
MinOf(a, b) == IF a < b THEN a ELSE b
SeqMin(s) == CHOOSE x \in SeqToSet(s) : \A y \in SeqToSet(s) : x <= y
SeqMax(s) == CHOOSE x \in SeqToSet(s) : \A y \in SeqToSet(s) : x >= y

\* round(x, 2): to the nearest 0.01 km; round(inf, 2) is inf
Round2(x) ==
    IF x = Inf THEN Inf
    ELSE ((x + (UnitsPerKm \div 200)) \div (UnitsPerKm \div 100)) * (UnitsPerKm \div 100)

NoDataResult_FallThrough ==
    [success |-> TRUE,
     interpolated_data |-> << >>,
     metadata |-> [interpolation_used |-> FALSE, confidence |-> "very_low"],
     warnings |-> << >>]

\* the value returned for an empty all_forecasts
NoDataResult ==
    [success |-> FALSE,
     error |-> "No forecast data available",
     interpolated_data |-> << >>,
     metadata |-> [interpolation_used |-> FALSE, confidence |-> "none"]]

Groupable(record) == Has(record, "forecast_timestamp") /\ Has(record, "parameter")

GroupKey_TimestampOnly(record) == << record["forecast_timestamp"], "any" >>

\* key = (record['forecast_timestamp'], record['parameter'])
GroupKey(record) == << record["forecast_timestamp"], record["parameter"] >>

\* grouped after the first k records: a dict keeps the order in which its keys
\* were first inserted
RECURSIVE GroupPrefix(_, _)
GroupPrefix(records, k) ==
    IF k = 0 THEN << >>
    ELSE LET g   == GroupPrefix(records, k - 1)
             key == GroupKey(records[k])
         IN  IF \E i \in 1..Len(g) : g[i].key = key
             THEN [i \in 1..Len(g) |->
                      IF g[i].key = key
                      THEN [key |-> key, records |-> Append(g[i].records, records[k])]
                      ELSE g[i]]
             ELSE Append(g, [key |-> key, records |-> << records[k] >>])

TrackMin_PerGroup(running, distances) == SeqMin(distances)

\* min_distance = min(min_distance, min(distances))
TrackMin(running, distances) == MinOf(running, SeqMin(distances))

\* max_distance = max(max_distance, max(distances))
TrackMax(running, distances) == MaxOf(running, SeqMax(distances))

ExactRecord_Untagged(nearest_points) == nearest_points[1]

\* the exact branch: nearest_points[0].copy(), tagged exact_match
ExactRecord(nearest_points) == TaggedCopy(nearest_points[1], "exact_match").dict

Confidence_Inclusive(d) ==
    IF d <= Km(1) THEN "high"
    ELSE IF d <= Km(50) THEN "medium"
    ELSE IF d <= Km(200) THEN "low"
    ELSE "very_low"

\* the tier of the nearest distance
Confidence(d) ==
    IF d < Km(1) THEN "high"
    ELSE IF d < Km(50) THEN "medium"
    ELSE IF d < Km(200) THEN "low"
    ELSE "very_low"

\* x rounded to a multiple of step, ties to the even multiple
RoundHalfEven(x, step) ==
    LET q == x \div step
        r == x % step
    IN  IF 2 * r < step THEN q * step
        ELSE IF 2 * r > step THEN (q + 1) * step
        ELSE IF q % 2 = 0 THEN q * step
        ELSE (q + 1) * step

\* f"{x:.0f}": the distance printed in whole kilometres; inf prints as inf
Fmt0(x) == IF x = Inf THEN Inf ELSE RoundHalfEven(x, UnitsPerKm)

\* a warning sentence: the words it starts with, the distances it prints and
\* whether it calls the forecast an approximation
Warning(kind, printed) ==
    [kind |-> kind,
     distances |-> printed,
     approximation |-> (kind = "EXTREME DISTANCE WARNING")]

Warnings_ExtremeInclusive(min_d, max_d, n_results, max_interp) ==
    (IF min_d >= max_interp
     THEN << Warning("EXTREME DISTANCE WARNING", << Fmt0(min_d) >>) >>
     ELSE IF min_d > Km(300)
     THEN << Warning("Large distance warning", << Fmt0(min_d) >>) >>
     ELSE << >>)
    \o
    (IF n_results > 0 /\ max_d > Km(200) /\ (max_d - min_d) > Km(100)
     THEN << Warning("Data point spread", << Fmt0(min_d), Fmt0(max_d) >>) >>
     ELSE << >>)

Warnings_SpreadInclusive(min_d, max_d, n_results, max_interp) ==
    (IF min_d > max_interp
     THEN << Warning("EXTREME DISTANCE WARNING", << Fmt0(min_d) >>) >>
     ELSE IF min_d > Km(300)
     THEN << Warning("Large distance warning", << Fmt0(min_d) >>) >>
     ELSE << >>)
    \o
    (IF n_results > 0 /\ max_d >= Km(200) /\ (max_d - min_d) > Km(100)
     THEN << Warning("Data point spread", << Fmt0(min_d), Fmt0(max_d) >>) >>
     ELSE << >>)

\* the warnings: at most one about the nearest distance, then the one about
\* the spread
Warnings(min_d, max_d, n_results, max_interp) ==
    (IF min_d > max_interp
     THEN << Warning("EXTREME DISTANCE WARNING", << Fmt0(min_d) >>) >>
     ELSE IF min_d > Km(300)
     THEN << Warning("Large distance warning", << Fmt0(min_d) >>) >>
     ELSE << >>)
    \o
    (IF n_results > 0 /\ max_d > Km(200) /\ (max_d - min_d) > Km(100)
     THEN << Warning("Data point spread", << Fmt0(min_d), Fmt0(max_d) >>) >>
     ELSE << >>)

Metadata(used, min_d, max_d, n, n_results) ==
    [interpolation_used |-> used,
     confidence |-> Confidence(min_d),
     nearest_distance_km |-> Round2(min_d),
     furthest_distance_km |-> Round2(max_d),
     n_points_used |-> n,
     total_records_interpolated |-> n_results]

----------------------------------------------------------------------------
(* Input universes *)

MaxCandidates == 3

RECURSIVE SeqsUpTo(_, _)
SeqsUpTo(S, n) ==
    IF n = 0 THEN { << >> }
    ELSE LET shorter == SeqsUpTo(S, n - 1)
         IN  shorter \cup { Append(s, x) : s \in {t \in shorter : Len(t) = n - 1}, x \in S }

Rec(lat, ts, par, val) ==
    [lat |-> lat, lon |-> 0, forecast_timestamp |-> ts, parameter |-> par,
     forecast_value |-> RatInt(val)]

\* n_points as callers may pass it, the default 3 included
NPointsValues == {-1, 0, 1, 2, 3}

\* sites 5 m, 10 m and 20 m north and 20 m south of the target, and one 1 km away
FindLats == {10, 20, 40, -40, 2000}
FindRecords == { Rec(lat, 1, "precipitation", v) : lat \in FindLats, v \in {1, 2} }

\* ranked candidates 0 m, 0.5 m, 1 m and 2 m from the target, with and
\* without a standard_error, and one record that carries no distance_km
IdwDistances == {0, 1, 2, 4}
IdwCandidates ==
    { WithField(Rec(d, 1, "precipitation", v), "distance_km", d) :
          d \in IdwDistances, v \in {1, 3} }
    \cup
    { WithField(WithField(Rec(d, 1, "precipitation", v), "distance_km", d),
                "standard_error", Rat(1, 2)) :
          d \in IdwDistances, v \in {1, 3} }
    \cup
    { Rec(4, 1, "precipitation", 3) }

MaxRecords == 2

\* the target's own site and sites 1 km, 50 km, 200 km and 600 km from it
SiteLats == {0, 2000, 100000, 400000, 1200000}
Timestamps == {1, 2}

\* The rows of the forecast table: every site reports temperature for both
\* timestamps and precipitation for the first, the latter in two rows with
\* different values.  One further row lacks its parameter column.
ForecastRecords ==
    { Rec(lat, 1, "precipitation", v) : lat \in SiteLats, v \in {1, 3} }
    \cup
    { Rec(lat, ts, "temperature", 1) : lat \in SiteLats, ts \in Timestamps }
    \cup
    { [lat |-> 2000, lon |-> 0, forecast_timestamp |-> 1, forecast_value |-> RatInt(1)] }

OrchNPoints == {-1, 0, 1, DefaultNPoints}
MaxDistances == {DefaultMaxDistance, Km(600), Km(10)}

orchVars == << all_forecasts, max_interpolation_distance, grouped, group_index,
               loopVars, result, queryVars, extVars >>

\* no call of haversine_distance alone is in progress
HavIdle ==
    /\ point_a = << 0, 0 >>
    /\ point_b = << 0, 0 >>
    /\ hav_out = NotCalled

\* no agent has been constructed
AgentIdle ==
    /\ last_forecast_data = << >>
    /\ calls = 0
    /\ entered = "none"
    /\ max_iterations = 0
    /\ iteration = 0
    /\ model_response = "none"
    /\ answer = NotCalled

\* no transfer job is being waited for
JobIdle ==
    /\ timeout_seconds = 0
    /\ elapsed = 0
    /\ operations = << >>
    /\ wait_out = NotCalled
    /\ caller = "none"
    /\ pipeline = "none"

ExtIdle == HavIdle /\ AgentIdle /\ JobIdle

\* no call of query_activity_forecast is in progress
QueryIdle ==
    /\ table = << >>
    /\ time_window = << 0, 0 >>
    /\ results = NotCalled
    /\ response = NotCalled
    /\ ExtIdle

\* no call of interpolate_forecast or query_activity_forecast is in progress
OrchIdle ==
    /\ QueryIdle
    /\ all_forecasts = << >>
    /\ max_interpolation_distance = DefaultMaxDistance
    /\ grouped = << >>
    /\ group_index = 0
    /\ interpolated_results = << >>
    /\ min_distance = Inf
    /\ max_distance = 0
    /\ interpolation_used = FALSE
    /\ idw_calls = << >>
    /\ result = NotCalled

\* no call of the interpolation or query functions is in progress
CoreIdle ==
    /\ target_lat = 0
    /\ target_lon = 0
    /\ n_points = DefaultNPoints
    /\ forecast_data = << >>
    /\ distance_threshold = ExactThreshold
    /\ found = NotCalled
    /\ nearby_forecasts = << >>
    /\ idw_out = NotCalled
    /\ all_forecasts = << >>
    /\ max_interpolation_distance = DefaultMaxDistance
    /\ grouped = << >>
    /\ group_index = 0
    /\ interpolated_results = << >>
    /\ min_distance = Inf
    /\ max_distance = 0
    /\ interpolation_used = FALSE
    /\ idw_calls = << >>
    /\ result = NotCalled
    /\ table = << >>
    /\ time_window = << 0, 0 >>
    /\ results = NotCalled
    /\ response = NotCalled

----------------------------------------------------------------------------
(* Specification of a call of find_nearest_points *)

InitFind ==
    /\ pc = "find"
    /\ target_lat = 0
    /\ target_lon = 0
    /\ n_points \in NPointsValues
    /\ forecast_data \in SeqsUpTo(FindRecords, MaxCandidates)
    /\ distance_threshold \in {ExactThreshold, 40}
    /\ found = NotCalled
    /\ nearby_forecasts = << >>
    /\ idw_out = NotCalled
    /\ OrchIdle

CallFind ==
    /\ pc = "find"
    /\ found' = Ret(find_nearest_points(target_lat, target_lon, forecast_data,
                                        n_points, distance_threshold))
    /\ pc' = "done"
    /\ forecast_data' = ForecastDataAfter(target_lat, target_lon, forecast_data)
    /\ UNCHANGED << target_lat, target_lon, n_points, distance_threshold,
                    idwVars, orchVars >>

NextFind == CallFind

SpecFind == InitFind /\ [][NextFind]_vars

----------------------------------------------------------------------------
(* Properties of find_nearest_points *)

FindDone == pc = "done" /\ found.exc = "none"

\* distance of the i-th input record to the target
FindDist(i) ==
    haversine_distance(target_lat, target_lon,
                       forecast_data[i]["lat"], forecast_data[i]["lon"])

\* position of the i-th input record in the ascending order that keeps input
\* order among equal distances
FindRank(i) ==
    1 + Cardinality({j \in 1..Len(forecast_data) :
                        \/ FindDist(j) < FindDist(i)
                        \/ FindDist(j) = FindDist(i) /\ j < i})

\* C8: for n_points >= 1 the call returns exactly the first
\* min(n_points, |forecast_data|) records of the input ordered by ascending
\* distance, equal distances in input order, each a copy of the input record
\* with its distance_km added.
C8_NearestAreStableSortedPrefix ==
    (FindDone /\ n_points >= 1) =>
        LET nearest == found.val[1]
        IN  /\ Len(nearest) = MinOf(n_points, Len(forecast_data))
            /\ \A i \in 1..Len(forecast_data) :
                   FindRank(i) <= Len(nearest) =>
                       nearest[FindRank(i)] =
                           WithField(forecast_data[i], "distance_km", FindDist(i))

\* more candidates than n_points, and two different records at the same
\* distance are both returned
C8_Witness ==
    /\ FindDone
    /\ n_points = 2
    /\ Len(forecast_data) = 3
    /\ Len(found.val[1]) = 2
    /\ found.val[1][1]["distance_km"] = found.val[1][2]["distance_km"]
    /\ found.val[1][1] # found.val[1][2]

----------------------------------------------------------------------------
(* Specification of a call of inverse_distance_weighting *)

InitIdw ==
    /\ pc = "idw"
    /\ target_lat = 0
    /\ target_lon = 0
    /\ n_points = 3
    /\ forecast_data = << >>
    /\ distance_threshold = ExactThreshold
    /\ found = NotCalled
    /\ nearby_forecasts \in SeqsUpTo(IdwCandidates, MaxCandidates)
    /\ idw_out = NotCalled
    /\ OrchIdle

CallIdw ==
    /\ pc = "idw"
    /\ idw_out' = inverse_distance_weighting(target_lat, target_lon,
                                              nearby_forecasts, IdwPower)
    /\ pc' = "done"
    /\ nearby_forecasts' = NearbyAfter(target_lat, target_lon, nearby_forecasts,
                                       IdwPower)
    /\ UNCHANGED << target_lat, target_lon, n_points, findVars, orchVars >>

NextIdw == CallIdw

SpecIdw == InitIdw /\ [][NextIdw]_vars

----------------------------------------------------------------------------
(* Properties of inverse_distance_weighting *)

IdwDone == pc = "done" /\ idw_out.exc # "pending"

\* distance of the i-th candidate as the function reads it
CandDist(i) == IdwDistance(target_lat, target_lon, nearby_forecasts[i])

Ranked(i) == Has(nearby_forecasts[i], "distance_km")

RECURSIVE ProdSq(_)
ProdSq(ds) == IF ds = << >> THEN 1 ELSE Head(ds) * Head(ds) * ProdSq(Tail(ds))

RECURSIVE Prod(_)
Prod(xs) == IF xs = << >> THEN 1 ELSE Head(xs) * Prod(Tail(xs))

RECURSIVE Sum(_)
Sum(xs) == IF xs = << >> THEN 0 ELSE Head(xs) + Sum(Tail(xs))

\* sum(w_i * v_i) / sum(w_i) with w_i = 1 / d_i^2, for distances ds and values
\* vs (rationals), brought to the common denominators D = prod d_i^2 and
\* B = prod of the values' denominators
IdwMean(ds, vs) ==
    LET n == Len(ds)
        D == ProdSq(ds)
        B == Prod([i \in 1..n |-> vs[i][2]])
        W == [i \in 1..n |-> D \div (ds[i] * ds[i])]
    IN  Rat(Sum([i \in 1..n |-> vs[i][1] * (B \div vs[i][2]) * W[i]]), B * Sum(W))

AllRankedAndRegular ==
    \A i \in 1..Len(nearby_forecasts) :
        Ranked(i) /\ nearby_forecasts[i]["distance_km"] >= DegenerateDistance

C6_DegenerateDistanceShortCircuits ==
    IdwDone =>
        /\ \A k \in 1..Len(idw_out.weighted) :
              idw_out.weighted[k] >= DegenerateDistance
        /\ idw_out.exc # "ZeroDivisionError"
        /\ (/\ Len(nearby_forecasts) >= 2
            /\ \E i \in 1..Len(nearby_forecasts) : CandDist(i) < DegenerateDistance)
           => /\ idw_out.exc = "none"
              /\ \E i \in 1..Len(nearby_forecasts) :
                    /\ CandDist(i) < DegenerateDistance
                    /\ \A j \in 1..(i - 1) : CandDist(j) >= DegenerateDistance
                    /\ idw_out.val = WithField(nearby_forecasts[i],
                                               "interpolation_method", "exact_match")

\* a candidate at distance 0 behind a regular one: the weight of the first was
\* computed, the second is returned
C6_Witness ==
    /\ IdwDone
    /\ Len(nearby_forecasts) = 2
    /\ CandDist(1) >= DegenerateDistance
    /\ CandDist(2) = 0
    /\ idw_out.exc = "none"
    /\ idw_out.val["interpolation_method"] = "exact_match"
    /\ idw_out.val["distance_km"] = 0
    /\ Len(idw_out.weighted) = 1

\* C7: with exactly one candidate, whatever its distance, the call does not
\* raise, computes no weight and returns the candidate unchanged but for the
\* tag nearest_point.
C7_SingleCandidateVerbatim ==
    (IdwDone /\ Len(nearby_forecasts) = 1) =>
        /\ idw_out.exc = "none"
        /\ idw_out.weighted = << >>
        /\ idw_out.val = WithField(nearby_forecasts[1],
                                   "interpolation_method", "nearest_point")

\* a single candidate at distance 0
C7_Witness ==
    /\ IdwDone
    /\ Len(nearby_forecasts) = 1
    /\ CandDist(1) = 0
    /\ idw_out.exc = "none"
    /\ idw_out.val["interpolation_method"] = "nearest_point"
    /\ idw_out.val["forecast_value"] = nearby_forecasts[1]["forecast_value"]

----------------------------------------------------------------------------
(* Specification of a call of interpolate_forecast *)

Init ==
    /\ pc = "call"
    /\ target_lat = 0
    /\ target_lon = 0
    /\ n_points = DefaultNPoints
    /\ forecast_data = << >>
    /\ distance_threshold = ExactThreshold
    /\ found = NotCalled
    /\ nearby_forecasts = << >>
    /\ idw_out = NotCalled
    /\ all_forecasts \in SeqsUpTo(ForecastRecords, MaxRecords)
    /\ max_interpolation_distance = DefaultMaxDistance
    /\ grouped = << >>
    /\ group_index = 0
    /\ interpolated_results = << >>
    /\ min_distance = Inf
    /\ max_distance = 0
    /\ interpolation_used = FALSE
    /\ idw_calls = << >>
    /\ result = NotCalled
    /\ QueryIdle

frame == << target_lat, target_lon, findVars, idwVars, all_forecasts, queryVars,
           extVars >>

\* The arguments n_points and max_interpolation_distance are drawn, from the
\* values n_args and m_args the caller may pass, where the
\* function first reads them (n_points in the loop over the groups,
\* max_interpolation_distance for the warnings); until then they show their
\* defaults.

\* `if not all_forecasts`: the failure result, whatever the other arguments
NoData(n_args, m_args) ==
    /\ pc = "call"
    /\ all_forecasts = << >>
    /\ result' = Ret(NoDataResult)
    /\ pc' = "done"
    /\ \E n \in n_args, m \in m_args :
          /\ n_points' = n
          /\ max_interpolation_distance' = m
    /\ UNCHANGED << frame, grouped, group_index, loopVars >>

\* the call with its arguments, the grouping loop and the initialisation of
\* the locals; a record without a key field raises KeyError
GroupForecasts(n_args) ==
    /\ pc = "call"
    /\ all_forecasts # << >>
    /\ \E n \in n_args : n_points' = n
    /\ IF \A i \in 1..Len(all_forecasts) : Groupable(all_forecasts[i])
       THEN /\ grouped' = GroupPrefix(all_forecasts, Len(all_forecasts))
            /\ group_index' = 1
            /\ pc' = "loop"
            /\ UNCHANGED result
       ELSE /\ result' = Raise("KeyError")
            /\ pc' = "done"
            /\ UNCHANGED << grouped, group_index >>
    /\ interpolated_results' = << >>
    /\ min_distance' = Inf
    /\ max_distance' = 0
    /\ interpolation_used' = FALSE
    /\ UNCHANGED << frame, max_interpolation_distance, idw_calls >>

\* one iteration of `for (timestamp, parameter), records in grouped.items()`
ProcessGroup ==
    /\ pc = "loop"
    /\ group_index <= Len(grouped)
    /\ LET records == grouped[group_index].records
           fnp == find_nearest_points(target_lat, target_lon, records,
                                      n_points, ExactThreshold)
           nearest_points == fnp[1]
           is_exact == fnp[2]
           distances == [i \in 1..Len(nearest_points) |->
                            nearest_points[i]["distance_km"]]
           idw == inverse_distance_weighting(target_lat, target_lon,
                                             nearest_points, IdwPower)
       IN  IF nearest_points = << >>
           THEN /\ group_index' = group_index + 1
                /\ UNCHANGED << pc, loopVars, result >>
           ELSE /\ min_distance' = TrackMin(min_distance, distances)
                /\ max_distance' = TrackMax(max_distance, distances)
                /\ IF is_exact
                   THEN /\ interpolated_results' =
                               Append(interpolated_results,
                                      ExactRecord(nearest_points))
                        /\ group_index' = group_index + 1
                        /\ UNCHANGED << pc, interpolation_used, idw_calls, result >>
                   ELSE /\ interpolation_used' = TRUE
                        /\ idw_calls' = Append(idw_calls,
                                               [group |-> group_index,
                                                nearby |-> nearest_points,
                                                after |-> NearbyAfter(target_lat, target_lon,
                                                              nearest_points, IdwPower)])
                        /\ IF idw.exc = "none"
                           THEN /\ interpolated_results' =
                                       Append(interpolated_results, idw.val)
                                /\ group_index' = group_index + 1
                                /\ UNCHANGED << pc, result >>
                           ELSE /\ result' = Raise(idw.exc)
                                /\ pc' = "done"
                                /\ UNCHANGED << interpolated_results, group_index >>
    \* the records of the group are the caller's dicts: what
    \* find_nearest_points stores to them shows in all_forecasts and grouped
    /\ all_forecasts' =
          [i \in 1..Len(all_forecasts) |->
              IF GroupKey(all_forecasts[i]) = grouped[group_index].key
              THEN SeenByCaller(all_forecasts[i],
                                RecordCopy(target_lat, target_lon, all_forecasts[i]))
              ELSE all_forecasts[i]]
    /\ grouped' = [grouped EXCEPT ![group_index].records =
                      ForecastDataAfter(target_lat, target_lon, @)]
    /\ UNCHANGED << target_lat, target_lon, findVars, idwVars, queryVars,
                    extVars, n_points, max_interpolation_distance >>

\* after the loop: the tier, the metadata, the warnings and the return
Finish(m_args) ==
    /\ pc = "loop"
    /\ group_index > Len(grouped)
    /\ \E m \in m_args : max_interpolation_distance' = m
    /\ result' = Ret([success |-> TRUE,
                      interpolated_data |-> interpolated_results,
                      metadata |-> Metadata(interpolation_used, min_distance,
                                            max_distance, n_points,
                                            Len(interpolated_results)),
                      warnings |-> Warnings(min_distance, max_distance,
                                            Len(interpolated_results),
                                            max_interpolation_distance')])
    /\ pc' = "done"
    /\ UNCHANGED << frame, n_points, grouped, group_index, loopVars >>

Next ==
    \/ NoData(OrchNPoints, MaxDistances)
    \/ GroupForecasts(OrchNPoints)
    \/ ProcessGroup
    \/ Finish(MaxDistances)

Spec == Init /\ [][Next]_vars

----------------------------------------------------------------------------
(* Properties of interpolate_forecast *)

Returned == pc = "done" /\ result.exc = "none"
Succeeded == Returned /\ result.val.success

\* every record of the input carries the fields the function reads
WellFormedInput ==
    \A i \in 1..Len(all_forecasts) : Groupable(all_forecasts[i])

\* distance of a record's site to the target
SiteDist(record) ==
    haversine_distance(target_lat, target_lon, record["lat"], record["lon"])

\* the input records of one key, in input order
RecordsOfKey(ts, par) ==
    SelectSeq(all_forecasts,
              LAMBDA r : r["forecast_timestamp"] = ts /\ r["parameter"] = par)

\* the indices at which a key occurs for the first time, and the k-th of them
FirstOccurrences ==
    { i \in 1..Len(all_forecasts) :
         \A j \in 1..(i - 1) :
            \/ all_forecasts[j]["forecast_timestamp"] # all_forecasts[i]["forecast_timestamp"]
            \/ all_forecasts[j]["parameter"] # all_forecasts[i]["parameter"] }

KthFirst(k) ==
    CHOOSE i \in FirstOccurrences :
        Cardinality({ j \in FirstOccurrences : j <= i }) = k

\* the records of the k-th key
KthGroup(k) ==
    RecordsOfKey(all_forecasts[KthFirst(k)]["forecast_timestamp"],
                 all_forecasts[KthFirst(k)]["parameter"])

\* position of the i-th record of recs in ascending distance, input order
\* among equal distances
RankIn(recs, i) ==
    1 + Cardinality({ j \in 1..Len(recs) :
                         \/ SiteDist(recs[j]) < SiteDist(recs[i])
                         \/ SiteDist(recs[j]) = SiteDist(recs[i]) /\ j < i })

\* how many records the selector returns for n_points = n: the first n, and
\* for a negative n all but the last -n
SelCount(recs, n) ==
    IF n >= 0 THEN MinOf(n, Len(recs)) ELSE MaxOf(Len(recs) + n, 0)

\* the records the selector returns: the nearest ones, annotated with their
\* distance
Selected(recs, n) ==
    [ r \in 1..SelCount(recs, n) |->
        LET i == CHOOSE i \in 1..Len(recs) : RankIn(recs, i) = r
        IN  WithField(recs[i], "distance_km", SiteDist(recs[i])) ]

\* the distances of the candidates selected in the groups processed so far
SelectedDistances ==
    UNION { { Selected(KthGroup(k), n_points)[r]["distance_km"] :
                 r \in 1..Len(Selected(KthGroup(k), n_points)) } :
            k \in 1..(group_index - 1) }

SetMin(S) == CHOOSE x \in S : \A y \in S : x <= y
SetMax(S) == CHOOSE x \in S : \A y \in S : x >= y

\* the k-th group is not skipped, and the place of its record in the output
Produced(k) == SelCount(KthGroup(k), n_points) > 0
OutIndex(k) == Cardinality({ j \in 1..k : Produced(j) })

\* C1: an empty all_forecasts returns, without raising, success = false, an
\* empty interpolated_data and the tier none, whatever the other arguments.
C1_EmptyInputFails ==
    (pc = "done" /\ all_forecasts = << >>) =>
        /\ result.exc = "none"
        /\ result.val.success = FALSE
        /\ result.val.interpolated_data = << >>
        /\ result.val.metadata.confidence = "none"

\* the empty call, made with an n_points and a max_interpolation_distance
\* that are not the defaults
C1_Witness ==
    /\ pc = "done"
    /\ all_forecasts = << >>
    /\ n_points = 0
    /\ max_interpolation_distance = Km(10)
    /\ result.exc = "none"
    /\ result.val.success = FALSE

TierRank(t) ==
    CASE t = "high" -> 3 [] t = "medium" -> 2 [] t = "low" -> 1 [] t = "very_low" -> 0

\* C2: in a successful result the tier is decided by the global nearest
\* distance d alone: high iff d < 1 km, medium iff 1 <= d < 50, low iff
\* 50 <= d < 200, very_low iff d >= 200; a larger d never has a better tier.
C2_TierFollowsNearestDistance ==
    Succeeded =>
        LET d == min_distance
            tier == result.val.metadata.confidence
        IN  /\ tier = "high" <=> d < Km(1)
            /\ tier = "medium" <=> (Km(1) <= d /\ d < Km(50))
            /\ tier = "low" <=> (Km(50) <= d /\ d < Km(200))
            /\ tier = "very_low" <=> d >= Km(200)
            /\ \A r \in ForecastRecords :
                  SiteDist(r) >= d =>
                      TierRank(Confidence(SiteDist(r))) <= TierRank(tier)

\* the nearest record lies exactly 50 km away: the tier is low
C2_Witness ==
    /\ Succeeded
    /\ min_distance = Km(50)
    /\ result.val.metadata.confidence = "low"

\* C3: after any number of groups the running minimum and maximum are the
\* smallest and the largest distance among the candidates selected (the
\* n_points nearest) in the groups processed so far; the tier and the reported
\* distances come from these aggregates; the reported nearest distance is the
\* distance of the nearest site of the whole input.
C3_RunningAggregatesAreGlobal ==
    ((pc = "loop" \/ Succeeded) /\ all_forecasts # << >>) =>
        LET nearest  == IF SelectedDistances = {} THEN Inf
                        ELSE SetMin(SelectedDistances)
            furthest == IF SelectedDistances = {} THEN 0
                        ELSE SetMax(SelectedDistances)
        IN  /\ min_distance = nearest
            /\ max_distance = furthest
            /\ Succeeded =>
                  LET all == { SiteDist(all_forecasts[i]) : i \in 1..Len(all_forecasts) }
                      md == result.val.metadata
                  IN  /\ md.nearest_distance_km = Round2(nearest)
                      /\ md.furthest_distance_km = Round2(furthest)
                      /\ md.confidence = Confidence(nearest)
                      /\ n_points >= 1 => md.nearest_distance_km = Round2(SetMin(all))

\* two groups, the second one farther away than the first: the minimum is
\* the first group's, the maximum the second's
C3_Witness ==
    /\ Succeeded
    /\ n_points >= 1
    /\ Len(grouped) = 2
    /\ SiteDist(all_forecasts[1]) = Km(1)
    /\ SiteDist(all_forecasts[2]) = Km(200)
    /\ min_distance = Km(1)
    /\ max_distance = Km(200)
    /\ result.val.metadata.confidence = "medium"

GroupOutput(recs, n) ==
    LET sel == Selected(recs, n)
    IN  IF sel[1]["distance_km"] < ExactThreshold
        THEN WithField(sel[1], "interpolation_method", "exact_match")
        ELSE inverse_distance_weighting(target_lat, target_lon, sel, IdwPower).val

\* C10: for a non-empty input and n_points >= 1 the result holds one record
\* per distinct (forecast_timestamp, parameter), in the order in which the
\* keys first occur; each carries its key and is computed from the records of
\* that key alone; total_records_interpolated is the number of keys.
C10_OneRecordPerKeyInFirstOccurrenceOrder ==
    (Succeeded /\ all_forecasts # << >> /\ n_points >= 1 /\ WellFormedInput) =>
        LET data == result.val.interpolated_data
        IN  /\ Len(data) = Cardinality(FirstOccurrences)
            /\ result.val.metadata.total_records_interpolated
                   = Cardinality(FirstOccurrences)
            /\ \A k \in 1..Len(data) :
                  /\ data[k]["forecast_timestamp"]
                         = all_forecasts[KthFirst(k)]["forecast_timestamp"]
                  /\ data[k]["parameter"] = all_forecasts[KthFirst(k)]["parameter"]
                  /\ data[k] = GroupOutput(KthGroup(k), n_points)

\* two records of one timestamp and different parameters, the alphabetically
\* later parameter first: two output records, in input order
C10_Witness ==
    /\ Succeeded
    /\ n_points >= 1
    /\ Len(all_forecasts) = 2
    /\ all_forecasts[1]["forecast_timestamp"] = all_forecasts[2]["forecast_timestamp"]
    /\ all_forecasts[1]["parameter"] = "temperature"
    /\ all_forecasts[2]["parameter"] = "precipitation"
    /\ Len(result.val.interpolated_data) = 2
    /\ result.val.interpolated_data[1]["parameter"] = "temperature"
    /\ result.val.interpolated_data[2]["parameter"] = "precipitation"

\* the warnings of the result that start with the given words
WarningsOfKind(kind) ==
    { i \in 1..Len(result.val.warnings) : result.val.warnings[i].kind = kind }

C12_SpreadWarningFollowsSpread ==
    Succeeded =>
        LET spread == WarningsOfKind("Data point spread")
        IN  /\ (spread # {}) <=>
                   /\ Len(result.val.interpolated_data) >= 1
                   /\ (max_distance - min_distance) > Km(100)
                   /\ max_distance > Km(200)
            /\ Cardinality(spread) <= 1
            /\ \A i \in spread :
                  result.val.warnings[i].distances
                      = << Fmt0(min_distance), Fmt0(max_distance) >>

\* sites at 50 km and 600 km with max_interpolation_distance 10 km: the
\* extreme distance warning and the spread warning together
C12_Witness ==
    /\ Succeeded
    /\ min_distance = Km(50)
    /\ max_distance = Km(600)
    /\ max_interpolation_distance = Km(10)
    /\ Len(result.val.warnings) = 2
    /\ result.val.warnings[1].kind = "EXTREME DISTANCE WARNING"
    /\ result.val.warnings[2].kind = "Data point spread"

\* C14: interpolate_forecast never raises because of a malformed record or
\* group: for a non-empty input, records that cannot be grouped and groups
\* without candidates are skipped, and a result is returned, not an exception.
C14_MalformedRecordsAreSkipped ==
    (pc = "done" /\ all_forecasts # << >>) =>
        /\ result.exc = "none"
        /\ result.val.success

\* C15: a call of interpolate_forecast with n_points <= 0 on a non-empty
\* input raises; it never returns a result whose success is true.
C15_InvalidNPointsRaises ==
    (pc = "done" /\ n_points <= 0 /\ all_forecasts # << >>) =>
        /\ result.exc # "none"
        /\ ~Succeeded

\* C20: with two or more candidates, all at a distance of at least 0.001 km
\* and all carrying a numeric field, the interpolated value of that field lies
\* between the smallest and the largest of the candidates' values; when all
\* candidates carry the same value v the result is v, tagged idw.
C20_IdwValueWithinCandidateRange ==
    (IdwDone /\ Len(nearby_forecasts) >= 2 /\ AllRankedAndRegular) =>
        \A k \in 1..Len(NumericFields) :
            LET f == NumericFields[k]
                n == Len(nearby_forecasts)
            IN  (\A i \in 1..n : Has(nearby_forecasts[i], f)) =>
                    /\ idw_out.exc = "none"
                    /\ Has(idw_out.val, f)
                    /\ \E i \in 1..n : RatLeq(nearby_forecasts[i][f], idw_out.val[f])
                    /\ \E i \in 1..n : RatLeq(idw_out.val[f], nearby_forecasts[i][f])
                    /\ (\A i \in 1..n : nearby_forecasts[i][f] = nearby_forecasts[1][f]) =>
                           /\ idw_out.val[f] = nearby_forecasts[1][f]
                           /\ idw_out.val["interpolation_method"] = "idw"

\* three candidates at regular distances, not all equally far, with values 1
\* and 3: the result lies strictly between 1 and 3
C20_Witness ==
    /\ IdwDone
    /\ Len(nearby_forecasts) = 3
    /\ AllRankedAndRegular
    /\ nearby_forecasts[1]["distance_km"] # nearby_forecasts[3]["distance_km"]
    /\ \E i \in 1..3 : nearby_forecasts[i]["forecast_value"] = RatInt(1)
    /\ \E i \in 1..3 : nearby_forecasts[i]["forecast_value"] = RatInt(3)
    /\ idw_out.exc = "none"
    /\ idw_out.val["forecast_value"] # RatInt(1)
    /\ idw_out.val["forecast_value"] # RatInt(3)
    /\ RatLeq(RatInt(1), idw_out.val["forecast_value"])
    /\ RatLeq(idw_out.val["forecast_value"], RatInt(3))

----------------------------------------------------------------------------
(* get_location_confidence_message *)

\* f"{x:.1f}": the distance printed with one decimal
Fmt1(x) == IF x = Inf THEN Inf ELSE RoundHalfEven(x, UnitsPerKm \div 10)

\* a message: which of the sentences it is and the distances it prints
Message(sentence, printed) == [sentence |-> sentence, distances |-> printed]

\* the keys of the dict `messages`
TierSentences == { "high", "medium", "low", "very_low" }

get_location_confidence_message_ByTierOnly(metadata) ==
    LET distance == Get(metadata, "nearest_distance_km", 0)
        confidence == Get(metadata, "confidence", "unknown")
    IN  IF confidence \in TierSentences
        THEN Message(confidence, << Fmt1(distance) >>)
        ELSE Message("fallback", << Fmt1(distance) >>)

get_location_confidence_message(metadata) ==
    IF ~Get(metadata, "interpolation_used", FALSE)
    THEN Message("exact_location", << >>)
    ELSE LET distance == Get(metadata, "nearest_distance_km", 0)
             confidence == Get(metadata, "confidence", "unknown")
         IN  IF confidence \in TierSentences
             THEN Message(confidence, << Fmt1(distance) >>)
             ELSE Message("fallback", << Fmt1(distance) >>)

----------------------------------------------------------------------------
(* BigQueryExecutor.query_activity_forecast *)

None == << >>                   \* Python's None
RadiusKm == 600000              \* @radius_km = 300
SentinelThreshold == -900       \* forecast_value > -900

\* ST_DISTANCE(ST_GEOGPOINT(lon, lat), ST_GEOGPOINT(@lng, @lat)) / 1000, on the
\* same sphere as haversine_distance
StDistanceKm(row, lat, lng) == haversine_distance(lat, lng, row["lat"], row["lon"])

NotSentinel_Inclusive(value) == value[1] >= SentinelThreshold * value[2]

\* forecast_value > -900
NotSentinel(value) == value[1] > SentinelThreshold * value[2]

\* forecast_timestamp BETWEEN @start_ts AND @end_ts
Between(ts, start_ts, end_ts) == start_ts <= ts /\ ts <= end_ts

\* the parameters in the order of their names
ParameterOrder == << "precipitation", "temperature" >>
ParameterRank(par) == CHOOSE k \in 1..Len(ParameterOrder) : ParameterOrder[k] = par

\* ORDER BY distance_km, forecast_timestamp, parameter
RowBefore(a, b) ==
    \/ a["distance_km"] < b["distance_km"]
    \/ /\ a["distance_km"] = b["distance_km"]
       /\ \/ a["forecast_timestamp"] < b["forecast_timestamp"]
          \/ /\ a["forecast_timestamp"] = b["forecast_timestamp"]
             /\ ParameterRank(a["parameter"]) < ParameterRank(b["parameter"])

\* rows equal in all three keys stay in the order of the table
InsertRow(sorted, row) ==
    LET k == Cardinality({ i \in 1..Len(sorted) : ~RowBefore(row, sorted[i]) })
    IN  SubSeq(sorted, 1, k) \o << row >> \o SubSeq(sorted, k + 1, Len(sorted))

RECURSIVE OrderBy(_)
OrderBy(rows) ==
    IF rows = << >> THEN << >>
    ELSE InsertRow(OrderBy(SubSeq(rows, 1, Len(rows) - 1)), rows[Len(rows)])

\* the rows the SQL query selects from the table, each with its distance_km
StorageQuery(rows, lat, lng, start_ts, end_ts, radius_km) ==
    LET distances == [i \in 1..Len(rows) |->
                         WithField(rows[i], "distance_km",
                                   StDistanceKm(rows[i], lat, lng))]
        selected == SelectSeq(distances,
                        LAMBDA r : /\ Between(r["forecast_timestamp"], start_ts, end_ts)
                                   /\ NotSentinel(r["forecast_value"])
                                   /\ r["distance_km"] <= radius_km)
    IN  OrderBy(selected)

\* value.isoformat(): the hour of the timestamp in two digits (the rows of one
\* call share the date and the offset)
Isoformat(ts) == << ts \div 10, ts % 10 >>

\* the order of the ISO strings, character by character
IsoBefore(a, b) == a[1] < b[1] \/ (a[1] = b[1] /\ a[2] < b[2])

\* dict(row) with its datetime values converted to ISO strings
ToRecord(row) ==
    [ f \in DOMAIN row |->
        IF f = "forecast_timestamp" THEN Isoformat(row[f]) ELSE row[f] ]

TotalRowsIsZero_Never(rows) == FALSE

\* results.total_rows == 0
TotalRowsIsZero(rows) == Len(rows) = 0

LocationName == "Unknown"
Location(lat, lon) ==
    [name |-> LocationName, coordinates |-> [lat |-> lat, lon |-> lon]]

NoRowsResult(lat, lon) ==
    [success |-> FALSE,
     error |-> "No forecast data found within 300km",
     location |-> Location(lat, lon),
     debug_info |-> [query_returned_rows |-> 0,
                     search_radius_km |-> RadiusKm \div UnitsPerKm,
                     suggestion |-> "Try a different location or time range"]]

NoForecastsResult(lat, lon) ==
    [success |-> FALSE,
     error |-> "No forecast data available for this location and time range",
     location |-> Location(lat, lon)]

\* the dict the handler of `except Exception as e` returns
ErrorResult(exc, lat, lon) ==
    [success |-> FALSE,
     error |-> exc,
     error_type |-> exc,
     location |-> Location(lat, lon)]

Caught_Reraised(exc, lat, lon) == Raise(exc)

\* an exception raised anywhere in the body ends the call with ErrorResult
Caught(exc, lat, lon) == Ret(ErrorResult(exc, lat, lon))

\* `if param:`
Truthy(record, field) == Has(record, field) /\ record[field] # ""

ForecastEntry(record) ==
    [timestamp |-> Get(record, "forecast_timestamp", None),
     value |-> Get(record, "forecast_value", None),
     lower |-> Get(record, "prediction_interval_lower", None),
     upper |-> Get(record, "prediction_interval_upper", None),
     standard_error |-> Get(record, "standard_error", None)]

\* forecasts_by_parameter[param] before it is sorted
EntriesOf(data, param) ==
    LET of_param == SelectSeq(data, LAMBDA r : Truthy(r, "parameter")
                                               /\ r["parameter"] = param)
    IN  [i \in 1..Len(of_param) |-> ForecastEntry(of_param[i])]

InsertEntry_AtEnd(sorted, entry) == Append(sorted, entry)

\* the entry goes behind the entries whose timestamp is not later than its own
InsertEntry(sorted, entry) ==
    LET k == Cardinality({ i \in 1..Len(sorted) :
                             ~IsoBefore(entry.timestamp, sorted[i].timestamp) })
    IN  SubSeq(sorted, 1, k) \o << entry >> \o SubSeq(sorted, k + 1, Len(sorted))

\* list.sort(key=lambda x: x['timestamp'])
RECURSIVE SortByTimestamp(_)
SortByTimestamp(entries) ==
    IF entries = << >> THEN << >>
    ELSE InsertEntry(SortByTimestamp(SubSeq(entries, 1, Len(entries) - 1)),
                     entries[Len(entries)])

ForecastsByParameter(data) ==
    LET params == { data[i]["parameter"] :
                      i \in { j \in 1..Len(data) : Truthy(data[j], "parameter") } }
    IN  [ p \in params |-> SortByTimestamp(EntriesOf(data, p)) ]

\* round(x, 2) of a rational: in hundredths
RatRound2(a) == Rat(RoundHalfEven(a[1] * 100, a[2]) \div a[2], 100)

RatMin(s) == CHOOSE x \in SeqToSet(s) : \A y \in SeqToSet(s) : RatLeq(x, y)
RatMax(s) == CHOOSE x \in SeqToSet(s) : \A y \in SeqToSet(s) : RatLeq(y, x)

\* [f['value'] for f in forecasts if f['value'] is not None]
ValuesOf(forecasts) ==
    LET present == SelectSeq(forecasts, LAMBDA f : f.value # None)
    IN  [i \in 1..Len(present) |-> present[i].value]

StatsOf(forecasts) ==
    LET values == ValuesOf(forecasts)
    IN  [min |-> RatRound2(RatMin(values)),
         max |-> RatRound2(RatMax(values)),
         avg |-> RatRound2(RatDiv(RatSum(values), RatInt(Len(values)))),
         count |-> Len(values)]

SummaryStats(forecasts_by_parameter) ==
    [ p \in { q \in DOMAIN forecasts_by_parameter :
                ValuesOf(forecasts_by_parameter[q]) # << >> } |->
        StatsOf(forecasts_by_parameter[p]) ]

ActivityType == "hiking"

\* the structured response built from a successful interpolation
StructuredResponse(lat, lon, window, interpolation_result) ==
    LET interpolated_data == interpolation_result["interpolated_data"]
        metadata == interpolation_result["metadata"]
        forecasts_by_parameter == ForecastsByParameter(interpolated_data)
    IN  [success |-> TRUE,
         location |->
            [name |-> LocationName,
             coordinates |-> [lat |-> lat, lon |-> lon],
             interpolation_used |-> metadata["interpolation_used"],
             nearest_distance_km |-> metadata["nearest_distance_km"],
             confidence |-> metadata["confidence"],
             confidence_message |-> get_location_confidence_message(metadata)],
         time_range |-> [start |-> window[1],
                         end |-> window[2],
                         duration_hours |-> window[2] - window[1]],
         activity |-> ActivityType,
         forecasts |-> forecasts_by_parameter,
         summary_stats |-> SummaryStats(forecasts_by_parameter),
         total_records |-> Len(interpolated_data)]

\* The forecast table: "temperature" rows for two hours at the target's own
\* site and at sites 1 km, 50 km, 300 km and 600 km from it, and
\* "precipitation" rows at the target's site whose value is the sentinel
\* -999, the threshold -900 or the valid -899.
MaxRows == 2
TableSites == { 0, 2000, 100000, 600000, 1200000 }
Hours == { 9, 10 }
SiteValue(lat) == IF lat \in { 0, 100000 } THEN 1 ELSE 3
TableRow(lat, ts, par, val) ==
    [lat |-> lat, lon |-> 0, forecast_timestamp |-> ts, parameter |-> par,
     forecast_value |-> RatInt(val)]
TableRows ==
    { TableRow(lat, ts, "temperature", SiteValue(lat)) :
          lat \in TableSites, ts \in Hours }
    \cup
    { TableRow(0, 9, "precipitation", v) : v \in { -999, -900, -899 } }
TimeWindows == { << 9, 10 >>, << 10, 10 >> }
StorageErrors == { "GoogleAPIError" }

InitQuery ==
    /\ pc = "query"
    /\ target_lat = 0
    /\ target_lon = 0
    /\ n_points = DefaultNPoints
    /\ forecast_data = << >>
    /\ distance_threshold = ExactThreshold
    /\ found = NotCalled
    /\ nearby_forecasts = << >>
    /\ idw_out = NotCalled
    /\ all_forecasts = << >>
    /\ max_interpolation_distance = DefaultMaxDistance
    /\ grouped = << >>
    /\ group_index = 0
    /\ interpolated_results = << >>
    /\ min_distance = Inf
    /\ max_distance = 0
    /\ interpolation_used = FALSE
    /\ idw_calls = << >>
    /\ result = NotCalled
    /\ table \in SeqsUpTo(TableRows, MaxRows)
    /\ time_window \in TimeWindows
    /\ results = NotCalled
    /\ response = NotCalled
    /\ ExtIdle

queryFrame == << target_lat, target_lon, n_points, findVars, idwVars,
                 max_interpolation_distance, grouped, group_index, loopVars,
                 result, table, time_window, extVars >>

\* self.client.query(...) and query_job.result(): the rows, or an exception of
\* the storage client
ExecuteQuery ==
    /\ pc = "query"
    /\ \/ results' = Ret(StorageQuery(table, target_lat, target_lon,
                                      time_window[1], time_window[2], RadiusKm))
       \/ \E e \in StorageErrors : results' = Raise(e)
    /\ pc' = "fetched"
    /\ UNCHANGED << queryFrame, all_forecasts, response >>

\* the exception of the storage client reaches the handler
StorageFailed ==
    /\ pc = "fetched"
    /\ results.exc # "none"
    /\ response' = Caught(results.exc, target_lat, target_lon)
    /\ pc' = "returned"
    /\ UNCHANGED << queryFrame, all_forecasts, results >>

\* `if results.total_rows == 0`
NoRows ==
    /\ pc = "fetched"
    /\ results.exc = "none"
    /\ TotalRowsIsZero(results.val)
    /\ response' = Ret(NoRowsResult(target_lat, target_lon))
    /\ pc' = "returned"
    /\ UNCHANGED << queryFrame, all_forecasts, results >>

\* the rows become dicts; `if not all_forecasts` returns, otherwise
\* interpolate_forecast(latitude, longitude, all_forecasts) is called
ConvertRows ==
    /\ pc = "fetched"
    /\ results.exc = "none"
    /\ ~TotalRowsIsZero(results.val)
    /\ LET records == [i \in 1..Len(results.val) |-> ToRecord(results.val[i])]
       IN  IF records = << >>
           THEN /\ response' = Ret(NoForecastsResult(target_lat, target_lon))
                /\ pc' = "returned"
                /\ UNCHANGED all_forecasts
           ELSE /\ all_forecasts' = records
                /\ pc' = "call"
                /\ UNCHANGED response
    /\ UNCHANGED << queryFrame, results >>

\* after interpolate_forecast: its exception reaches the handler, its failure
\* is returned as it is, its success is restructured
Assemble ==
    /\ pc = "done"
    /\ response' =
          IF result.exc # "none"
          THEN Caught(result.exc, target_lat, target_lon)
          ELSE IF ~result.val["success"]
          THEN Ret(result.val)
          ELSE Ret(StructuredResponse(target_lat, target_lon, time_window,
                                      result.val))
    /\ pc' = "returned"
    /\ UNCHANGED << queryFrame, all_forecasts, results >>

NextQuery ==
    \/ ExecuteQuery
    \/ StorageFailed
    \/ NoRows
    \/ ConvertRows
    \/ GroupForecasts({DefaultNPoints})
    \/ ProcessGroup
    \/ Finish({DefaultMaxDistance})
    \/ Assemble

SpecQuery == InitQuery /\ [][NextQuery]_vars

----------------------------------------------------------------------------
(* Properties of query_activity_forecast *)

QueryReturned == pc = "returned" /\ response.exc = "none"
QuerySucceeded == QueryReturned /\ response.val["success"]

\* a forecast value at or below the sentinel threshold
IsSentinel(value) == value[1] <= SentinelThreshold * value[2]

\* C13: in every execution of query_activity_forecast no record whose value
\* is a missing-data sentinel (at or below -900) is passed to
\* interpolate_forecast, so none is a candidate of a group or of a call of
\* inverse_distance_weighting and none is copied into the result.
C13_NoSentinelReachesInterpolation ==
    /\ \A i \in 1..Len(all_forecasts) :
          ~IsSentinel(all_forecasts[i]["forecast_value"])
    /\ \A k \in 1..Len(grouped) : \A i \in 1..Len(grouped[k].records) :
          ~IsSentinel(grouped[k].records[i]["forecast_value"])
    /\ \A c \in 1..Len(idw_calls) : \A i \in 1..Len(idw_calls[c].nearby) :
          ~IsSentinel(idw_calls[c].nearby[i]["forecast_value"])
    /\ \A i \in 1..Len(interpolated_results) :
          ~IsSentinel(interpolated_results[i]["forecast_value"])

\* the table holds a row at the threshold -900 before a valid row of the same
\* site, hour and parameter: the call succeeds with the valid row alone
C13_Witness ==
    /\ QuerySucceeded
    /\ Len(table) = 2
    /\ table[1]["forecast_value"] = RatInt(SentinelThreshold)
    /\ table[2]["parameter"] = table[1]["parameter"]
    /\ table[2]["forecast_timestamp"] = table[1]["forecast_timestamp"]
    /\ table[2]["lat"] = table[1]["lat"]
    /\ Len(all_forecasts) = 1
    /\ response.val["total_records"] = 1

\* C16: when the storage query returns zero rows, query_activity_forecast
\* returns the structured failure (success false, an error naming the 300 km
\* radius, a suggestion, the requested location) and never invokes
\* interpolate_forecast.
C16_ZeroRowsFailWithoutInterpolation ==
    (results.exc = "none" /\ results.val = << >>) =>
        /\ pc \in { "fetched", "returned" }
        /\ result = NotCalled
        /\ all_forecasts = << >>
        /\ pc = "returned" =>
              /\ response.exc = "none"
              /\ response.val["success"] = FALSE
              /\ response.val["error"] = "No forecast data found within 300km"
              /\ response.val["debug_info"]["search_radius_km"] = 300
              /\ response.val["debug_info"]["query_returned_rows"] = 0
              /\ response.val["debug_info"]["suggestion"]
                     = "Try a different location or time range"
              /\ response.val["location"]["coordinates"]
                     = [lat |-> target_lat, lon |-> target_lon]

\* the table holds rows, all of them outside the radius, outside the time
\* window or sentinels: the failure is returned
C16_Witness ==
    /\ pc = "returned"
    /\ Len(table) = 2
    /\ results.exc = "none"
    /\ results.val = << >>
    /\ response.val["success"] = FALSE
    /\ Has(response.val, "debug_info")

\* C17: query_activity_forecast never propagates an exception: whatever the
\* storage raises or returns, the call returns a dict with a boolean success
\* and, when success is false, an error.
C17_QueryNeverRaises ==
    /\ response.exc \in { "pending", "none" }
    /\ pc = "returned" =>
          /\ response.exc = "none"
          /\ Has(response.val, "success")
          /\ response.val["success"] \in BOOLEAN
          /\ ~response.val["success"] => Has(response.val, "error")

\* the storage client raised: the failure names the exception
C17_Witness ==
    /\ pc = "returned"
    /\ results.exc = "GoogleAPIError"
    /\ response.exc = "none"
    /\ response.val["success"] = FALSE
    /\ response.val["error_type"] = "GoogleAPIError"
    /\ table # << >>

\* the interpolated records of one parameter
DataOf(par) ==
    SelectSeq(result.val["interpolated_data"], LAMBDA r : r["parameter"] = par)

\* C18: in every successful result, forecasts maps each parameter of the
\* interpolated records to a series in strictly ascending timestamp order with
\* exactly one entry per interpolated record of the parameter, so the series
\* lengths sum to total_records; summary_stats is computed from the non-null
\* values alone, count is their number and min <= avg <= max.
C18_SeriesSortedAndStatsFromValues ==
    QuerySucceeded =>
        LET data == result.val["interpolated_data"]
            forecasts == response.val["forecasts"]
            stats == response.val["summary_stats"]
        IN  /\ DOMAIN forecasts = { data[i]["parameter"] : i \in 1..Len(data) }
            /\ response.val["total_records"] = Len(data)
            /\ Sum([k \in 1..Len(ParameterOrder) |->
                      IF ParameterOrder[k] \in DOMAIN forecasts
                      THEN Len(forecasts[ParameterOrder[k]]) ELSE 0]) = Len(data)
            /\ \A p \in DOMAIN forecasts :
                  /\ Len(forecasts[p]) = Len(DataOf(p))
                  /\ \A i \in 1..(Len(forecasts[p]) - 1) :
                        IsoBefore(forecasts[p][i].timestamp,
                                  forecasts[p][i + 1].timestamp)
                  /\ \A j \in 1..Len(DataOf(p)) : \E i \in 1..Len(forecasts[p]) :
                        /\ forecasts[p][i].timestamp = DataOf(p)[j]["forecast_timestamp"]
                        /\ forecasts[p][i].value = DataOf(p)[j]["forecast_value"]
                  /\ LET present == { i \in 1..Len(forecasts[p]) :
                                        forecasts[p][i].value # None }
                     IN  /\ (p \in DOMAIN stats) <=> (present # {})
                         /\ (p \in DOMAIN stats) =>
                               /\ stats[p].count = Cardinality(present)
                               /\ RatLeq(stats[p].min, stats[p].avg)
                               /\ RatLeq(stats[p].avg, stats[p].max)
                               /\ \E i \in present :
                                     stats[p].min = RatRound2(forecasts[p][i].value)
                               /\ \E i \in present :
                                     stats[p].max = RatRound2(forecasts[p][i].value)
                               /\ \A i \in present :
                                     /\ RatLeq(stats[p].min, RatRound2(forecasts[p][i].value))
                                     /\ RatLeq(RatRound2(forecasts[p][i].value), stats[p].max)

\* the nearer row is of the later hour, so the interpolated records arrive
\* later hour first and the series holds them earlier hour first; the two
\* values differ, so min < avg < max
C18_Witness ==
    /\ QuerySucceeded
    /\ Len(result.val["interpolated_data"]) = 2
    /\ result.val["interpolated_data"][1]["forecast_timestamp"] = Isoformat(10)
    /\ result.val["interpolated_data"][2]["forecast_timestamp"] = Isoformat(9)
    /\ Len(response.val["forecasts"]["temperature"]) = 2
    /\ response.val["forecasts"]["temperature"][1].timestamp = Isoformat(9)
    /\ response.val["forecasts"]["temperature"][2].timestamp = Isoformat(10)
    /\ response.val["summary_stats"]["temperature"].min = RatInt(1)
    /\ response.val["summary_stats"]["temperature"].avg = RatInt(2)
    /\ response.val["summary_stats"]["temperature"].max = RatInt(3)
    /\ response.val["summary_stats"]["temperature"].count = 2

----------------------------------------------------------------------------
(* Further properties of inverse_distance_weighting *)

RatLess(a, b) == ~RatLeq(b, a)

\* C21: with power 2 and two candidates at distances 0.001 km <= d1 < d2, the
\* closer candidate's weight 1/d1^2 is strictly larger than 1/d2^2, and with
\* values v1 # v2 the interpolated value is strictly closer to v1 than to v2.
C21_CloserCandidateWeighsMore ==
    (IdwDone /\ Len(nearby_forecasts) = 2 /\ AllRankedAndRegular) =>
        \A near \in 1..2 :
            LET far == 3 - near
                d1 == nearby_forecasts[near]["distance_km"]
                d2 == nearby_forecasts[far]["distance_km"]
                v1 == nearby_forecasts[near]["forecast_value"]
                v2 == nearby_forecasts[far]["forecast_value"]
                out == idw_out.val["forecast_value"]
            IN  d1 < d2 =>
                   /\ RatLess(Weight(d2, IdwPower), Weight(d1, IdwPower))
                   /\ idw_out.exc = "none"
                   /\ RatLess(v1, v2) =>
                         /\ RatLeq(v1, out)
                         /\ RatLess(RatAdd(out, out), RatAdd(v1, v2))
                   /\ RatLess(v2, v1) =>
                         /\ RatLeq(out, v1)
                         /\ RatLess(RatAdd(v1, v2), RatAdd(out, out))

\* the farther candidate (2 m, value 3) listed before the closer one (1 m,
\* value 1): the result 7/5 is nearer to 1
C21_Witness ==
    /\ IdwDone
    /\ Len(nearby_forecasts) = 2
    /\ AllRankedAndRegular
    /\ nearby_forecasts[1]["distance_km"] = 4
    /\ nearby_forecasts[2]["distance_km"] = DegenerateDistance
    /\ nearby_forecasts[1]["forecast_value"] = RatInt(3)
    /\ nearby_forecasts[2]["forecast_value"] = RatInt(1)
    /\ idw_out.exc = "none"
    /\ idw_out.val["forecast_value"] = Rat(7, 5)

----------------------------------------------------------------------------
(* Frame of the interpolation functions *)

\* C22: find_nearest_points, inverse_distance_weighting and
\* interpolate_forecast leave their inputs unchanged: no step of a call
\* changes the caller's list (same records, same order, same keys and values;
\* neither distance_km nor interpolation_method is stored into a record), and
\* the same holds for the list interpolate_forecast hands to
\* inverse_distance_weighting.
C22_InputsUnchanged ==
    [][ /\ forecast_data' = forecast_data
        /\ nearby_forecasts' = nearby_forecasts
        /\ all_forecasts' = all_forecasts
        /\ \A c \in 1..Len(idw_calls') : idw_calls'[c].after = idw_calls'[c].nearby
      ]_vars

\* two records of one group, the farther one first, both selected and
\* interpolated: the caller's list still has them in that order and without
\* distance_km, while the selected copies carry it
C22_Witness ==
    /\ Succeeded
    /\ Len(all_forecasts) = 2
    /\ Len(grouped) = 1
    /\ SiteDist(all_forecasts[1]) = Km(200)
    /\ SiteDist(all_forecasts[2]) = Km(50)
    /\ \A i \in 1..2 : /\ ~Has(all_forecasts[i], "distance_km")
                       /\ ~Has(all_forecasts[i], "interpolation_method")
    /\ Len(idw_calls) = 1
    /\ Len(idw_calls[1].nearby) = 2
    /\ idw_calls[1].nearby[1]["distance_km"] = Km(50)
    /\ result.val.interpolated_data[1]["interpolation_method"] = "idw"

----------------------------------------------------------------------------
(* Tier, input order and method of interpolate_forecast *)

\* C24: whatever max_interpolation_distance is, a result of
\* interpolate_forecast that carries the extreme distance warning has the
\* tier very_low.
C24_ExtremeWarningMeansVeryLow ==
    (Succeeded /\ WarningsOfKind("EXTREME DISTANCE WARNING") # {}) =>
        result.val.metadata.confidence = "very_low"

Reverse(s) == [i \in 1..Len(s) |-> s[Len(s) + 1 - i]]

\* the distances selected when every group is given in reverse order
ReversedSelectedDistances ==
    UNION { { Selected(Reverse(KthGroup(k)), n_points)[r]["distance_km"] :
                 r \in 1..Len(Selected(Reverse(KthGroup(k)), n_points)) } :
            k \in 1..Cardinality(FirstOccurrences) }

\* C25: the order of the input records does not matter: given the same
\* records in another order (here every group reversed), interpolate_forecast
\* returns for each key the same interpolated value, and the same nearest and
\* furthest distance, hence the same tier and warnings; this includes records
\* of one group at equal distance with different values, and groups of more
\* candidates than n_points.
C25_InputOrderDoesNotMatter ==
    (Succeeded /\ all_forecasts # << >> /\ n_points >= 1 /\ WellFormedInput) =>
        LET data == result.val.interpolated_data
        IN  /\ \A k \in 1..Cardinality(FirstOccurrences) :
                  GroupOutput(Reverse(KthGroup(k)), n_points)["forecast_value"]
                      = data[OutIndex(k)]["forecast_value"]
            /\ SetMin(ReversedSelectedDistances) = min_distance
            /\ SetMax(ReversedSelectedDistances) = max_distance

----------------------------------------------------------------------------
(* Warnings of a forecast query *)

\* C26: every warning that interpolate_forecast emits during a call of
\* query_activity_forecast is present in the document the call returns.
C26_WarningsReachTheResult ==
    (QuerySucceeded /\ result.exc = "none") =>
        \A i \in 1..Len(result.val["warnings"]) :
            /\ Has(response.val, "warnings")
            /\ \E j \in 1..Len(response.val["warnings"]) :
                  response.val["warnings"][j] = result.val["warnings"][i]

----------------------------------------------------------------------------
(* haversine_distance off the meridian *)

(* The operator haversine_distance above is the function on one meridian.
   Here the formula is computed for coordinates whose latitudes and
   differences are multiples of 60 degrees, where the sines and cosines the
   code takes are rational.  The outcome is the local `a`; the value returned
   is 2 * asin(sqrt(a)) * 6371, which is 0 for a = 0 and strictly increasing
   in a, so two calls return the same distance iff they compute the same a. *)

\* math.sin(x / 2) ** 2 for x the radians of a multiple of 60 degrees
SinHalfSq(deg) ==
    LET k == (deg \div 60) % 6
    IN  IF k = 0 THEN RatInt(0)
        ELSE IF k \in {1, 5} THEN Rat(1, 4)
        ELSE IF k \in {2, 4} THEN Rat(3, 4)
        ELSE RatInt(1)

\* math.cos(math.radians(lat)) for lat in {-60, 0, 60}
CosDeg(lat) == IF lat = 0 THEN RatInt(1) ELSE Rat(1, 2)

haversine_a_FirstLatitudeTwice(lat1, lon1, lat2, lon2) ==
    RatAdd(SinHalfSq(lat2 - lat1),
           RatMul(RatMul(CosDeg(lat1), CosDeg(lat1)), SinHalfSq(lon2 - lon1)))

\* a = sin(dlat/2)**2 + cos(lat1_rad) * cos(lat2_rad) * sin(dlon/2)**2
haversine_a(lat1, lon1, lat2, lon2) ==
    LET dlat == lat2 - lat1
        dlon == lon2 - lon1
    IN  RatAdd(SinHalfSq(dlat),
               RatMul(RatMul(CosDeg(lat1), CosDeg(lat2)), SinHalfSq(dlon)))

\* << lat, lon >> in degrees
LatticePoints == { -60, 0, 60 } \X { -120, -60, 0, 60, 120, 180 }

InitHaversine ==
    /\ pc = "haversine"
    /\ point_a \in LatticePoints
    /\ point_b \in LatticePoints
    /\ hav_out = NotCalled
    /\ CoreIdle
    /\ AgentIdle
    /\ JobIdle

CallHaversine ==
    /\ pc = "haversine"
    /\ hav_out' = Ret(haversine_a(point_a[1], point_a[2], point_b[1], point_b[2]))
    /\ pc' = "haversine_done"
    /\ UNCHANGED << point_a, point_b, coreVars, agentVars, jobVars >>

NextHaversine == CallHaversine

SpecHaversine == InitHaversine /\ [][NextHaversine]_vars

\* C23: haversine_distance is symmetric, the distance from A to B is the
\* distance from B to A, and the distance between identical points is 0.
C23_HaversineSymmetricAndZeroOnDiagonal ==
    (pc = "haversine_done") =>
        /\ hav_out.exc = "none"
        /\ hav_out.val = haversine_a(point_b[1], point_b[2], point_a[1], point_a[2])
        /\ (point_a = point_b) => hav_out.val = RatInt(0)

\* from (60, -120) to (0, 60): dlat = -60 and dlon = 180 give
\* a = 1/4 + 1/2 * 1 * 1 = 3/4, two latitudes with different cosines
C23_Witness ==
    /\ pc = "haversine_done"
    /\ point_a = << 60, -120 >>
    /\ point_b = << 0, 60 >>
    /\ hav_out = Ret(Rat(3, 4))

----------------------------------------------------------------------------
(* VertexAIAgent: ask and assess_activity *)

(* The model service answers every request.  A reply is "function_call" (its
   first part is a function call), "text", "no_parts" (a candidate without
   parts) or "no_candidates".  A function call names a tool and ends in
   "success" or "failure" (the dict's success field) or in the TypeError that
   execute_function raises for arguments the tool does not take. *)

DefaultMaxIterations == 5
MaxCalls == 3
MaxToolCalls == 2

Replies == { "function_call", "text", "no_parts", "no_candidates" }
MaxIterationsValues == { 0, 1, DefaultMaxIterations }
ToolCalls == [name : { "query_activity_forecast", "query_bigquery" },
              outcome : { "success", "failure", "TypeError" }]

\* the five fields copied from the result of a query_activity_forecast that
\* was executed during the given call of the agent
ForecastData(call) == [executed_in |-> call]

\* the chart_data attached when the fallback query fails too
EmptyChartData == [total_records |-> 0, error |-> "Failed to fetch chart data"]

\* `if func_name == "query_activity_forecast" and result.get('success')`
IsStored(fc) == fc.name = "query_activity_forecast" /\ fc.outcome = "success"

\* final_response for the reply the loop ended with; parts[0].text of a part
\* that is a function call raises, which the except clause turns into text
FinalResponse(reply) ==
    IF reply = "text" THEN "text of the model"
    ELSE IF reply = "function_call" THEN "Error extracting response"
    ELSE IF reply = "no_parts" THEN "No response generated"
    ELSE "No response candidates available"

FinalResponses == { FinalResponse(r) : r \in Replies }

\* the loop condition of ask
LoopContinues == model_response = "function_call" /\ iteration < max_iterations

\* the agent after __init__
InitAgent ==
    /\ pc = "agent"
    /\ last_forecast_data = None
    /\ calls = 0
    /\ entered = "none"
    /\ max_iterations = 0
    /\ iteration = 0
    /\ model_response = "none"
    /\ answer = NotCalled
    /\ CoreIdle
    /\ HavIdle
    /\ JobIdle

agentFrame == << coreVars, havVars, jobVars >>

\* ask(question, max_iterations), called directly or by assess_activity with
\* the default: the first request to the model and iteration = 0
BeginCall ==
    /\ pc = "agent"
    /\ calls < MaxCalls
    /\ \E m \in { "ask", "assess_activity" }, mi \in MaxIterationsValues, r \in Replies :
          /\ (m = "assess_activity") => (mi = DefaultMaxIterations)
          /\ entered' = m
          /\ max_iterations' = mi
          /\ model_response' = r
    /\ calls' = calls + 1
    /\ iteration' = 0
    /\ answer' = NotCalled
    /\ pc' = "ask_loop"
    /\ UNCHANGED << last_forecast_data, agentFrame >>

\* one round of the while loop: the function calls of the reply are executed
\* in order, a successful forecast query is stored, the results go back to the
\* model and its reply is appended to the history
Round ==
    /\ pc = "ask_loop"
    /\ LoopContinues
    /\ iteration' = iteration + 1
    /\ \E fcs \in SeqsUpTo(ToolCalls, MaxToolCalls) \ { << >> }, r \in Replies :
          LET raising == { i \in 1..Len(fcs) : fcs[i].outcome = "TypeError" }
              stop    == IF raising = {} THEN Len(fcs) + 1
                         ELSE CHOOSE i \in raising : \A j \in raising : i <= j
              stored  == { i \in 1..(stop - 1) : IsStored(fcs[i]) }
          IN  /\ last_forecast_data' =
                    IF stored # {} THEN ForecastData(calls) ELSE last_forecast_data
              /\ IF stop <= Len(fcs)
                 THEN /\ answer' = Raise("TypeError")
                      /\ pc' = "agent"
                      /\ UNCHANGED model_response
                 ELSE /\ model_response' = r
                      /\ IF r = "no_candidates"
                         \* response.candidates[0] of the history append
                         THEN /\ answer' = Raise("IndexError")
                              /\ pc' = "agent"
                         ELSE UNCHANGED << answer, pc >>
    /\ UNCHANGED << calls, entered, max_iterations, agentFrame >>

\* after the loop: the text of the last reply is extracted and returned
ExtractFinalResponse ==
    /\ pc = "ask_loop"
    /\ ~LoopContinues
    /\ answer' = Ret([final_response |-> FinalResponse(model_response)])
    /\ pc' = IF entered = "ask" THEN "agent" ELSE "attach"
    /\ UNCHANGED << last_forecast_data, calls, entered, max_iterations,
                    iteration, model_response, agentFrame >>

\* assess_activity after ask: the stored forecast data is attached and
\* cleared, otherwise the forecast is queried now
AttachChartData ==
    /\ pc = "attach"
    /\ \E fallback \in { "success", "failure" } :
          LET chart_data == IF last_forecast_data # None THEN last_forecast_data
                            ELSE IF fallback = "success" THEN ForecastData(calls)
                            ELSE EmptyChartData
          IN  answer' = Ret([raw_response |-> answer.val["final_response"],
                             chart_data |-> chart_data])
    /\ last_forecast_data' = None
    /\ pc' = "agent"
    /\ UNCHANGED << calls, entered, max_iterations, iteration, model_response,
                    agentFrame >>

NextAgent ==
    \/ BeginCall
    \/ Round
    \/ ExtractFinalResponse
    \/ AttachChartData

SpecAgent == InitAgent /\ [][NextAgent]_vars

\* C28: the chart_data that assess_activity attaches to its result comes from
\* a query_activity_forecast executed during this same call, whatever calls
\* of ask and assess_activity were made on the agent before, including calls
\* that raised and calls whose forecast query failed.
C28_ChartDataIsFromThisCall ==
    (pc = "agent" /\ entered = "assess_activity" /\ answer.exc = "none") =>
        (Has(answer.val["chart_data"], "executed_in") =>
             answer.val["chart_data"]["executed_in"] = calls)

\* C29: ask ends its loop after at most max_iterations rounds, also when every
\* reply of the model is a function call, and then returns a string.
C29_AskReturnsAStringWithinMaxIterations ==
    /\ iteration <= MaxOf(max_iterations, 0)
    /\ (pc = "agent" /\ entered = "ask") =>
          /\ answer.exc = "none"
          /\ answer.val["final_response"] \in FinalResponses

----------------------------------------------------------------------------
(* run_sts_transfer: wait_for_job_completion, main, and the pipeline *)

DefaultTimeout == 3600
PollSeconds == 30
MaxOperations == 2

\* metadata.status of a listed operation; "NO_METADATA" when op.metadata is
\* not set
OperationStatuses == { "NO_METADATA", "IN_PROGRESS", "SUCCESS", "FAILED", "ABORTED" }
TimeoutValues == { 0, 60, DefaultTimeout }

\* wait_for_job_completion has been called, by main (alone or as step 2 of
\* run_pipeline) with the default timeout, or directly
InitJob ==
    /\ pc = "wait"
    /\ caller \in { "main", "direct" }
    /\ timeout_seconds \in (IF caller = "main" THEN { DefaultTimeout } ELSE TimeoutValues)
    /\ pipeline \in (IF caller = "main" THEN { "none", "Step 2" } ELSE { "none" })
    /\ elapsed = 0
    /\ operations = << >>
    /\ wait_out = NotCalled
    /\ CoreIdle
    /\ HavIdle
    /\ AgentIdle

jobFrame == << coreVars, havVars, agentVars, timeout_seconds, caller >>

\* one iteration of `while True` that passes the timeout check: the
\* operations are listed and scanned in order, then time.sleep(30)
Poll ==
    /\ pc = "wait"
    /\ ~(elapsed > timeout_seconds)
    /\ \E ops \in SeqsUpTo(OperationStatuses, MaxOperations) :
          LET ended == { i \in 1..Len(ops) : ops[i] \in { "SUCCESS", "FAILED" } }
              first == CHOOSE i \in ended : \A j \in ended : i <= j
          IN  /\ operations' = ops
              /\ IF ended = {}
                 THEN /\ elapsed' = elapsed + PollSeconds
                      /\ UNCHANGED << wait_out, pc >>
                 ELSE /\ wait_out' = IF ops[first] = "SUCCESS" THEN Ret(None)
                                     ELSE Raise("RuntimeError")
                      /\ pc' = "waited"
                      /\ UNCHANGED elapsed
    /\ UNCHANGED << jobFrame, pipeline >>

\* `if time.time() - start_time > timeout_seconds: ... break`, and the end of
\* the function
TimedOut ==
    /\ pc = "wait"
    /\ elapsed > timeout_seconds
    /\ wait_out' = Ret(None)
    /\ pc' = "waited"
    /\ UNCHANGED << jobFrame, elapsed, operations, pipeline >>

\* main after wait_for_job_completion: the message of completion, or the
\* exception passed on
MainReports ==
    /\ pc = "waited"
    /\ caller = "main"
    /\ pc' = IF wait_out.exc = "none" THEN "Step 2 Complete" ELSE "main raised"
    /\ UNCHANGED << jobFrame, elapsed, operations, wait_out, pipeline >>

\* run_pipeline after step 2: the next step, or sys.exit(1)
PipelineContinues ==
    /\ pc \in { "Step 2 Complete", "main raised" }
    /\ pipeline = "Step 2"
    /\ pipeline' = IF pc = "Step 2 Complete" THEN "Step 3" ELSE "exit 1"
    /\ pc' = "pipeline"
    /\ UNCHANGED << jobFrame, elapsed, operations, wait_out >>

NextJob ==
    \/ Poll
    \/ TimedOut
    \/ MainReports
    \/ PipelineContinues

SpecJob == InitJob /\ [][NextJob]_vars

\* an operation of the job was seen with status SUCCESS
TransferSucceeded == \E i \in 1..Len(operations) : operations[i] = "SUCCESS"

\* C30: wait_for_job_completion returns normally only after an operation of
\* the job reached SUCCESS, so main reports "Step 2 Complete", and the
\* pipeline goes on to step 3, only when the transfer succeeded.
C30_CompletionMeansSuccess ==
    /\ (pc = "waited" /\ wait_out.exc = "none") => TransferSucceeded
    /\ (pc = "Step 2 Complete") => TransferSucceeded
    /\ (pipeline = "Step 3") => TransferSucceeded

====
